---- MODULE Spec2Model ----
(***************************************************************************)
(* pthread-ext: a bounded FIFO message queue (pthread_queue.c) and an      *)
(* event-flag group (pthread_event.c), both monitors built from a pthread  *)
(* mutex and condition variables.                                          *)
(*                                                                         *)
(* Every API call is executed by a thread in steps that follow the code:   *)
(*   call     argument check, deadline conversion, pthread_mutex_lock      *)
(*   locked   pthread_mutex_lock has returned: the critical section up to   *)
(*            the first condition wait or the unlock follows                *)
(*   waiting  inside pthread_cond_wait / pthread_cond_timedwait, mutex     *)
(*            released                                                     *)
(*   woken    signalled, timed out or spuriously woken; must re-acquire    *)
(*            the mutex before the wait returns                            *)
(*   relocked the wait has returned (with the mutex, unless it failed)     *)
(*   signal   after pthread_mutex_unlock, before pthread_cond_signal /     *)
(*            pthread_cond_broadcast                                       *)
(*   cancelling, cleanup, dead                                             *)
(*            a thread cancelled inside its condition wait re-acquires the *)
(*            mutex, runs cleanup_handler and terminates                   *)
(*   rmw, flag, looptest, condwait, retest, clear, timedout, unlock       *)
(*            inside a critical section that runs without exclusion (the   *)
(*            mutex was destroyed, or initialised anew under a thread):    *)
(*            before the store of a mask that was loaded, the store of     *)
(*            reset, the test of the loop, the condition wait, the test    *)
(*            after it, the clearing of the mask, the unlock               *)
(*   mutex_init, cond_init, mask_init, reset_init                          *)
(*            inside pthread_event_create on the caller's event, before    *)
(*            the statement named                                          *)
(*   destroying, destroy_test, freeing                                     *)
(*            inside pthread_event_destroy: before pthread_cond_destroy    *)
(*            returns, before the test of destroyFree, before free         *)
(*   undefined                                                             *)
(*            the thread uses an object whose storage was freed: anything  *)
(*            may happen, the thread is followed no further                *)
(*   done     returned; ret holds the return value. The locals of the call *)
(*            are gone; the caller still has the function it called, the   *)
(*            timeout it passed, its message buffer and the return value   *)
(***************************************************************************)
EXTENDS Integers, Sequences, FiniteSets

\* ---------------------------------------------------------------- bounds
MaxQSize == 2
MaxMsgs == 3
MaskBits == 2
MaxSec == 1
MaxMs == 3

\* ------------------------------------------------------ program constants
PTHREAD_WAIT == -1
PTHREAD_NOWAIT == 0
PTHREAD_EVENT_ANY == 0
PTHREAD_EVENT_ALL == 1
PTHREAD_EVENT_CLEAR == 0
PTHREAD_EVENT_KEEP == 1
EINVAL == 22
ETIMEDOUT == 110
ECANCELED == 125
NsecPerSec == 1000000000

\* the client threads
Threads == {1, 2}

\* the threads that call pthread_event_wait; every thread calls the rest
Waiters == {1}

\* int result; declared without an initial value: the mark of a result that
\* no statement has assigned yet
Uninit == -1

\* the int that stands for every int other than 0 and the error numbers
\* these functions return (701357651, 7, 1234567, ...)
OtherValue == Uninit

\* timeout arguments offered to a call: an invalid negative value, wait
\* forever, poll, and a positive number of milliseconds
TimeoutValues == {-2, PTHREAD_WAIT, PTHREAD_NOWAIT, 5}

\* mask arguments and mask values: pthread_event_mask cut to MaskBits bits
Masks == 0..(2 ^ MaskBits - 1)

\* the mask arguments of set and clr: at least one bit
SetMasks == Masks \ {0}

\* the mask arguments of wait: no bit, one bit (the lowest: the bits are
\* interchangeable), all bits
WaitMasks == {0, 1, 2 ^ MaskBits - 1}

\* what a read of the unassigned local result may yield, as classes of int:
\* 0, each error number of the function, and OtherValue for any other int
\* (the value differs from build to build and from run to run)
UninitValues == {OtherValue, 0, EINVAL, ETIMEDOUT, ECANCELED}

EventOps == {"set", "clr", "wait", "current", "ereset", "eunreset"}
QueueOps == {"sendmsg", "getmsg", "qreset", "qunreset", "qcount"}

VARIABLES
    shared,     \* the object the client created for its threads to share:
                \* "queue" or "event"; "queue destroyed" once
                \* pthread_queue_destroy has freed the queue; "event
                \* destroyed" once pthread_mutex_destroy has destroyed
                \* event->mutex, the storage of the event still there;
                \* "event freed" once pthread_event_destroy has freed it
    destroyFree, \* event->destroyFree: the event was allocated by
                \* pthread_event_create, pthread_event_destroy frees it
    \* struct pthread_queue_s
    qsize, buffer, head, tail, count, qreset,
    qmutex,     \* set of threads holding queue->mutex (empty: unlocked)
    full,       \* threads blocked on the condition variable queue->full
    empty,      \* threads blocked on the condition variable queue->empty
    \* struct pthread_event_s
    emask,      \* event->mask
    ereset,     \* event->reset
    emutex,     \* set of threads holding event->mutex (empty: unlocked)
    nusers,     \* event->mutex: locks minus unlocks since it was initialised
                \* (pthread_mutex_destroy fails with EBUSY unless it is 0)
    cond,       \* threads blocked on the condition variable event->cond
    wrefs,      \* event->cond: the waiters it counts: those that joined
                \* minus those that left since it was initialised
                \* (pthread_cond_broadcast does nothing and
                \* pthread_cond_destroy returns when it is 0)
    \* per thread: the call in progress and its locals
    pc,         \* where the thread is in its call
    op,         \* the function called
    timeout,    \* its timeout argument
    msg,        \* sendmsg: the message passed; getmsg: the caller's buffer
    wmask,      \* event calls: the mask argument
    test,       \* pthread_event_wait: the test argument
    action,     \* pthread_event_wait: the action argument
    result,     \* the local variable result
    ret,        \* the value the call returned (0 while a call is running)
    cancelled,  \* the thread was blocked in a condition wait of this call
                \* when a reset ran its critical section
    expired,    \* the clock has passed abstime, the deadline of the call
    badnsec,    \* abstime.tv_nsec of the call is 1000000000: not a valid
                \* timespec
    tmp,        \* the value the thread has computed from the event->mask
                \* it loaded, and stores next, in the |= or &= ~ it is
                \* executing (0 outside of one)
    \* one call of pthread_ext_ms2abs_time
    tpc,        \* "off": not called; "call", "read", "done": before
                \* clock_gettime, after it, after the function
    ms,         \* the argument ms
    clock,      \* the reading <<tv_sec, tv_nsec>> clock_gettime gives
    tspec,      \* *abstime as <<tv_sec, tv_nsec>>
    \* history of the queue
    nextTag,    \* next per-element sequence tag handed to a sender
    sent,       \* tags copied into the buffer since the last reset, in order
    rcvd        \* tags copied out of the buffer since the last reset, in order

qdata == <<qsize, buffer, head, tail, count, qreset>>
qsync == <<qmutex, full, empty>>
hist == <<nextTag, sent, rcvd>>
qstate == <<qdata, qsync, hist>>
estate == <<emask, ereset, emutex, nusers, cond, wrefs>>
\* what a step on the event leaves alone, and what a step on the queue does
tstate == <<tpc, ms, clock, tspec>>
world == <<shared, destroyFree, tstate>>
qside == <<qstate, world>>
eside == <<estate, world>>
frame ==
    <<op, timeout, msg, wmask, test, action, result, ret, cancelled, expired,
      badnsec, tmp>>
vars == <<world, qstate, estate, pc, frame>>

\* ------------------------------------------------------------- helpers

\* TimeoutInvalid without the check: every timeout is accepted
TimeoutInvalidNever(to) == FALSE

\* (PTHREAD_WAIT != timeout) && (timeout < 0)
TimeoutInvalid(to) == (PTHREAD_WAIT # to) /\ (to < 0)

\* PollFails without the test: a poll never ends the call early
PollFailsNever(to, wouldBlock) == FALSE

\* (PTHREAD_NOWAIT == timeout) && (<condition that would block>)
PollFails(to, wouldBlock) == (PTHREAD_NOWAIT = to) /\ wouldBlock

\* a & b on unsigned integers
RECURSIVE BitAnd(_, _)
BitAnd(a, b) ==
    IF a = 0 \/ b = 0 THEN 0
    ELSE (a % 2) * (b % 2) + 2 * BitAnd(a \div 2, b \div 2)

\* a | b
BitOr(a, b) == a + b - BitAnd(a, b)

\* BitClear that clears too much: every bit is cleared
BitClearAll(a, b) == 0

\* a & ~b
BitClear(a, b) == a - BitAnd(a, b)

\* EventDone weakened: one bit of the mask is always enough
EventDoneOneBit(tst, m, cur) == BitAnd(cur, m) # 0

\* done = (PTHREAD_EVENT_ANY == mask) ? ((event->mask & mask) != 0)
\*                                    : ((event->mask & mask) == mask);
\* the code compares the mask argument, not the test argument, with
\* PTHREAD_EVENT_ANY
EventDone(tst, m, cur) ==
    IF PTHREAD_EVENT_ANY = m THEN BitAnd(cur, m) # 0 ELSE BitAnd(cur, m) = m

\* QueueFull weakened: a sender never finds the queue full
QueueFullNever == FALSE

\* queue->count == queue->qsize
QueueFull == count = qsize

\* queue->count == 0
QueueEmpty == count = 0

\* NextIndex without the wrap: the index just grows
NextIndexNoWrap(i) == i + 1

\* (i == queue->qsize-1) ? 0 : i+1
NextIndex(i) == IF i = qsize - 1 THEN 0 ELSE i + 1

\* slot a message is copied into: &queue->buffer[queue->tail * msg_len]
WriteIndex == tail

\* ReadIndex at the other end: the newest message is copied out
ReadIndexNewest == (tail + qsize - 1) % qsize

\* slot a message is copied from: &queue->buffer[queue->head * msg_len]
ReadIndex == head

\* the queued messages, oldest first
Content == [i \in 1..count |-> buffer[(head + i - 1) % qsize]]

Ready(t) == pc[t] \in {"idle", "done"}

\* the threads inside a call on the shared object
Inside == {u \in Threads : pc[u] \notin {"idle", "done", "dead"}}

\* ---------------------------------------------------------------- Init

\* no thread has called anything yet
TInit ==
    /\ pc = [t \in Threads |-> "idle"]
    /\ op = [t \in Threads |-> "none"]
    /\ timeout = [t \in Threads |-> 0]
    /\ msg = [t \in Threads |-> 0]
    /\ wmask = [t \in Threads |-> 0]
    /\ test = [t \in Threads |-> 0]
    /\ action = [t \in Threads |-> 0]
    /\ result = [t \in Threads |-> Uninit]
    /\ ret = [t \in Threads |-> 0]
    /\ cancelled = [t \in Threads |-> FALSE]
    /\ expired = [t \in Threads |-> FALSE]
    /\ badnsec = [t \in Threads |-> FALSE]
    /\ tmp = [t \in Threads |-> 0]

\* pthread_queue_create(&queue, num_msg, msg_len_bytes)
QCreate(num_msg) ==
    /\ qsize = num_msg
    /\ buffer = [i \in 0..(num_msg - 1) |-> 0]
    /\ head = 0
    /\ tail = 0
    /\ count = 0
    /\ qreset = FALSE
    /\ qmutex = {}
    /\ full = {}
    /\ empty = {}
    /\ nextTag = 1
    /\ sent = <<>>
    /\ rcvd = <<>>

\* pthread_event_create(&event) with event == NULL
EInit ==
    /\ destroyFree = TRUE
    /\ emask = 0
    /\ ereset = FALSE
    /\ emutex = {}
    /\ nusers = 0
    /\ cond = {}
    /\ wrefs = 0

\* pthread_ext_ms2abs_time is not being looked at
TimeOff ==
    /\ tpc = "off"
    /\ ms = 0
    /\ clock = <<0, 0>>
    /\ tspec = <<0, 0>>

\* the client creates the object its threads share: a queue of 1..MaxQSize
\* messages, or an event (the queue, unused, then has its smallest size)
Init ==
    /\ TInit
    /\ EInit
    /\ TimeOff
    /\ shared \in {"queue", "event"}
    /\ \E num_msg \in 1..MaxQSize :
          /\ shared = "event" => num_msg = 1
          /\ QCreate(num_msg)

\* ------------------------------------------------- steps of one thread

\* abstime->tv_sec += ms/1000; abstime->tv_nsec += (ms % 1000) * 1000000l;
\* for ms >= 1000, else abstime->tv_nsec += ms * 1000000l;
AddMs(m, t) ==
    IF m >= 1000
    THEN <<t[1] + (m \div 1000), t[2] + (m % 1000) * 1000000>>
    ELSE <<t[1], t[2] + m * 1000000>>

\* if (abstime->tv_nsec > 1000000000l) { tv_nsec -= 1000000000l; tv_sec += 1; }
Normalise(t) ==
    IF t[2] > NsecPerSec THEN <<t[1] + 1, t[2] - NsecPerSec>> ELSE t

\* void pthread_ext_ms2abs_time(long ms, struct timespec * abstime), for
\* the reading now of the clock
pthread_ext_ms2abs_time(m, now) == Normalise(AddMs(m, now))

\* glibc, pthread_cond_timedwait: a timespec is accepted when its tv_nsec is
\* in 0 .. 999999999
ValidNsec(t) == 0 <= t[2] /\ t[2] < NsecPerSec

\* the clock readings at which a call with timeout to converts its timeout:
\* the middle of a second, and the moment at which the nanoseconds added
\* fill the second exactly
EntryReadings(to) ==
    {now \in {<<0, 500000000>>, <<0, NsecPerSec - (to % 1000) * 1000000>>} :
        ValidNsec(now)}

\* thread t enters function o: the arguments are bound, result is not yet
\* assigned; a timeout above 0 is converted to abstime, and badnsec tells
\* whether its tv_nsec came out invalid. locks: the call goes on to its
\* critical section, pthread_mutex_lock has returned; otherwise it returns
\* code at once
Enter(t, o, to, m, wm, tst, act, locks, code) ==
    /\ Ready(t)
    /\ op' = [op EXCEPT ![t] = o]
    /\ timeout' = [timeout EXCEPT ![t] = to]
    /\ msg' = [msg EXCEPT ![t] = m]
    /\ wmask' = [wmask EXCEPT ![t] = wm]
    /\ test' = [test EXCEPT ![t] = tst]
    /\ action' = [action EXCEPT ![t] = act]
    /\ result' = [result EXCEPT ![t] = Uninit]
    /\ cancelled' = [cancelled EXCEPT ![t] = FALSE]
    /\ expired' = [expired EXCEPT ![t] = FALSE]
    /\ \E now \in EntryReadings(to) :
          badnsec' = [badnsec EXCEPT ![t] =
                        locks /\ to > 0
                        /\ ~ValidNsec(pthread_ext_ms2abs_time(to, now))]
    /\ pc' = [pc EXCEPT ![t] = IF locks THEN "locked" ELSE "done"]
    /\ ret' = [ret EXCEPT ![t] = IF locks THEN 0 ELSE code]
    /\ UNCHANGED tmp

\* thread t goes on to p inside its call
Goto(t, p) ==
    /\ pc' = [pc EXCEPT ![t] = p]
    /\ UNCHANGED frame

\* thread t returns code; the threads of W, which its signal or broadcast
\* reaches, leave their condition wait, which returns 0
Returns(t, code, W) ==
    /\ pc' = [u \in Threads |->
                IF u = t THEN "done" ELSE IF u \in W THEN "woken" ELSE pc[u]]
    /\ ret' = [ret EXCEPT ![t] = code]
    /\ result' = [u \in Threads |->
                IF u = t THEN Uninit ELSE IF u \in W THEN 0 ELSE result[u]]
    /\ wmask' = [wmask EXCEPT ![t] = 0]
    /\ test' = [test EXCEPT ![t] = 0]
    /\ action' = [action EXCEPT ![t] = 0]
    /\ cancelled' = [cancelled EXCEPT ![t] = FALSE]
    /\ expired' = [expired EXCEPT ![t] = FALSE]
    /\ badnsec' = [badnsec EXCEPT ![t] = FALSE]
    /\ UNCHANGED <<op, timeout, msg, tmp>>

\* thread t has called o, and the behaviour of the threads of U is undefined
\* from here on (they use an object whose storage is freed): they may
\* return anything, crash or hang, and are followed no further
Undefined(t, o, U) ==
    /\ pc' = [u \in Threads |-> IF u \in U THEN "undefined" ELSE pc[u]]
    /\ op' = [op EXCEPT ![t] = o]
    /\ timeout' = [u \in Threads |-> IF u \in U THEN 0 ELSE timeout[u]]
    /\ msg' = [u \in Threads |-> IF u \in U THEN 0 ELSE msg[u]]
    /\ wmask' = [u \in Threads |-> IF u \in U THEN 0 ELSE wmask[u]]
    /\ test' = [u \in Threads |-> IF u \in U THEN 0 ELSE test[u]]
    /\ action' = [u \in Threads |-> IF u \in U THEN 0 ELSE action[u]]
    /\ result' = [u \in Threads |-> IF u \in U THEN Uninit ELSE result[u]]
    /\ ret' = [u \in Threads |-> IF u \in U THEN 0 ELSE ret[u]]
    /\ cancelled' = [u \in Threads |-> IF u \in U THEN FALSE ELSE cancelled[u]]
    /\ expired' = [u \in Threads |-> IF u \in U THEN FALSE ELSE expired[u]]
    /\ badnsec' = [u \in Threads |-> IF u \in U THEN FALSE ELSE badnsec[u]]
    /\ tmp' = [u \in Threads |-> IF u \in U THEN 0 ELSE tmp[u]]

\* the condition wait of thread t ends with res (0: signalled or spurious,
\* ETIMEDOUT: abstime reached); t still has to re-acquire the mutex
WaitEnds(t, res) ==
    /\ pc' = [pc EXCEPT ![t] = "woken"]
    /\ result' = [result EXCEPT ![t] = res]
    /\ UNCHANGED <<op, timeout, msg, wmask, test, action, ret,
                  cancelled, expired, badnsec, tmp>>

\* &abstime, the deadline handed to pthread_cond_timedwait: the one computed
\* at call entry, the same at every wait of the call; passed tells whether
\* the clock is beyond it
abstime(passed) == passed

\* pthread_cond_timedwait of thread t returns EINVAL: abstime is not a valid
\* timespec
Rejects(t) == timeout[t] > 0 /\ badnsec[t]

\* thread t calls pthread_cond_wait / pthread_cond_timedwait with result
\* holding res. einval: the wait returns EINVAL at once (abstime is not a
\* valid timespec, or the mutex is destroyed and cannot be released): the
\* wait has returned, nothing was released and nobody waits. Otherwise the
\* mutex is released (by the caller of Block); with a deadline that has
\* passed the wait ends at once with ETIMEDOUT, otherwise the thread blocks
Block(t, res, einval) ==
    /\ IF einval
       THEN /\ pc' = [pc EXCEPT ![t] = "relocked"]
            /\ result' = [result EXCEPT ![t] = EINVAL]
            /\ UNCHANGED expired
       ELSE IF timeout[t] > 0 /\ abstime(expired[t])
       THEN /\ pc' = [pc EXCEPT ![t] = "woken"]
            /\ result' = [result EXCEPT ![t] = ETIMEDOUT]
            /\ expired' = [expired EXCEPT ![t] = abstime(expired[t])]
       ELSE /\ pc' = [pc EXCEPT ![t] = "waiting"]
            /\ result' = [result EXCEPT ![t] = res]
            /\ expired' = [expired EXCEPT ![t] = abstime(expired[t])]
    /\ UNCHANGED <<op, timeout, msg, wmask, test, action, ret,
                  cancelled, badnsec, tmp>>

\* the clock passes abstime, the deadline of the running call of thread t
DeadlinePasses(t) ==
    /\ pc[t] \in {"locked", "looptest", "condwait", "waiting", "woken",
                  "relocked", "retest"}
    /\ timeout[t] > 0
    /\ ~expired[t]
    /\ expired' = [expired EXCEPT ![t] = TRUE]
    /\ UNCHANGED <<world, qstate, estate, pc>>
    /\ UNCHANGED <<op, timeout, msg, wmask, test, action, result, ret,
                  cancelled, badnsec, tmp>>

\* ============================================================ the queue

\* a call of thread t on the queue it shares:
\* pthread_mutex_lock(&queue->mutex) when the arguments are valid; a call
\* that fails its argument check does not touch the queue
QEnter(t, o, to, m, valid) ==
    /\ shared = "queue" \/ (shared = "queue destroyed" /\ ~valid)
    /\ Enter(t, o, to, m, 0, 0, 0, valid, EINVAL)
    /\ IF valid
       THEN qmutex = {} /\ qmutex' = {t}
       ELSE UNCHANGED qmutex
    /\ UNCHANGED <<qdata, full, empty, sent, rcvd, eside>>

\* pthread_queue_sendmsg: timeout check, ms2abs_time, pthread_mutex_lock
SendCall(t, to) ==
    /\ nextTag <= MaxMsgs
    /\ QEnter(t, "sendmsg", to, nextTag, ~TimeoutInvalid(to))
    /\ nextTag' = nextTag + 1

\* pthread_queue_getmsg: timeout check, ms2abs_time, pthread_mutex_lock
GetCall(t, to) ==
    /\ QEnter(t, "getmsg", to, 0, ~TimeoutInvalid(to))
    /\ UNCHANGED nextTag

\* pthread_queue_reset: pthread_mutex_lock
QResetCall(t) ==
    /\ QEnter(t, "qreset", 0, 0, TRUE)
    /\ UNCHANGED nextTag

\* pthread_queue_unreset: pthread_mutex_lock
QUnresetCall(t) ==
    /\ QEnter(t, "qunreset", 0, 0, TRUE)
    /\ UNCHANGED nextTag

\* pthread_queue_count: return queue->count; (the mutex is not taken)
QCount(t) ==
    /\ shared = "queue"
    /\ Enter(t, "qcount", 0, 0, 0, 0, 0, FALSE, count)
    /\ UNCHANGED <<qstate, eside>>

\* the condition wait re-acquires queue->mutex before it returns
QRelock(t) ==
    /\ pc[t] = "woken"
    /\ op[t] \in QueueOps
    /\ qmutex = {}
    /\ qmutex' = {t}
    /\ Goto(t, "relocked")
    /\ UNCHANGED <<qdata, full, empty, hist, eside>>

\* ------------------------------------------------- pthread_queue_sendmsg

\* pthread_cond_wait / pthread_cond_timedwait(&queue->full, &queue->mutex):
\* the mutex is released and the thread joins the waiters of queue->full,
\* unless the timed wait returns EINVAL with the mutex held
SendWait(t) ==
    /\ Block(t, result[t], Rejects(t))
    /\ full' = IF pc'[t] = "waiting" THEN full \cup {t} ELSE full
    /\ qmutex' = IF Rejects(t) THEN qmutex ELSE {}
    /\ UNCHANGED <<qdata, empty, hist, eside>>

\* SendReset never set: the sender takes no notice of a reset
SendResetNever == FALSE

\* reset = queue->reset; read in the critical section, used after the unlock
SendReset == qreset

\* after the wait loop: reset = queue->reset; if (!reset) copy the message,
\* count += 1, advance tail; unlock. A cancelled send returns ECANCELED;
\* a successful one still has to signal queue->empty
SendExit(t) ==
    /\ IF SendReset
       THEN /\ Returns(t, ECANCELED, {})
            /\ UNCHANGED <<buffer, count, tail, sent>>
       ELSE /\ buffer' = [buffer EXCEPT ![WriteIndex] = msg[t]]
            /\ count' = count + 1
            /\ tail' = NextIndex(tail)
            /\ sent' = Append(sent, msg[t])
            /\ Goto(t, "signal")
    /\ qmutex' = {}
    /\ UNCHANGED <<qsize, head, qreset, full, empty, nextTag, rcvd, eside>>

\* while ((queue->count == queue->qsize) && !queue->reset) { wait }
SendLoop(t) ==
    IF QueueFull /\ ~qreset THEN SendWait(t) ELSE SendExit(t)

\* an ETIMEDOUT return that forgets pthread_mutex_unlock
QTimedOutLocked(t) ==
    /\ Returns(t, ETIMEDOUT, {})
    /\ UNCHANGED <<qdata, qmutex, full, empty, hist, eside>>

\* the ETIMEDOUT returns of sendmsg and getmsg: unlock and return
QTimedOut(t) ==
    /\ qmutex' = {}
    /\ Returns(t, ETIMEDOUT, {})
    /\ UNCHANGED <<qdata, full, empty, hist, eside>>

\* first critical section of sendmsg: the poll test, then the wait loop
SendLocked(t) ==
    /\ pc[t] = "locked"
    /\ op[t] = "sendmsg"
    /\ IF PollFails(timeout[t], QueueFull) THEN QTimedOut(t) ELSE SendLoop(t)

\* the wait on queue->full has returned: ETIMEDOUT ends the call, anything
\* else (0, EINVAL) re-evaluates the loop condition
SendRelocked(t) ==
    /\ pc[t] = "relocked"
    /\ op[t] = "sendmsg"
    /\ IF result[t] = ETIMEDOUT THEN QTimedOut(t) ELSE SendLoop(t)

\* pthread_cond_signal(&cond): the sets of threads it may take out of the
\* waiters of cond: one waiter if there is any, chosen by the scheduler
pthread_cond_signal(waiters) ==
    IF waiters = {} THEN {{}} ELSE {{w} : w \in waiters}

\* pthread_cond_signal(&queue->empty); return 0;
SendSignal(t) ==
    /\ pc[t] = "signal"
    /\ op[t] = "sendmsg"
    /\ \E W \in pthread_cond_signal(empty) :
          Returns(t, 0, W) /\ empty' = empty \ W
    /\ UNCHANGED <<qdata, qmutex, full, hist, eside>>

\* -------------------------------------------------- pthread_queue_getmsg

\* pthread_cond_wait / pthread_cond_timedwait(&queue->empty, &queue->mutex)
GetWait(t) ==
    /\ Block(t, result[t], Rejects(t))
    /\ empty' = IF pc'[t] = "waiting" THEN empty \cup {t} ELSE empty
    /\ qmutex' = IF Rejects(t) THEN qmutex ELSE {}
    /\ UNCHANGED <<qdata, full, hist, eside>>

\* copy the oldest message out, count--, advance head; unlock
GetExit(t) ==
    /\ msg' = [msg EXCEPT ![t] = buffer[ReadIndex]]
    /\ rcvd' = Append(rcvd, buffer[ReadIndex])
    /\ count' = count - 1
    /\ head' = NextIndex(head)
    /\ qmutex' = {}
    /\ pc' = [pc EXCEPT ![t] = "signal"]
    /\ UNCHANGED <<op, timeout, wmask, test, action, result, ret,
                  cancelled, expired, badnsec, tmp>>
    /\ UNCHANGED <<qsize, buffer, tail, qreset, full, empty, nextTag, sent>>
    /\ UNCHANGED eside

\* while (queue->count == 0) { wait }
GetLoop(t) ==
    IF QueueEmpty THEN GetWait(t) ELSE GetExit(t)

\* first critical section of getmsg: the poll test, then the wait loop
GetLocked(t) ==
    /\ pc[t] = "locked"
    /\ op[t] = "getmsg"
    /\ IF PollFails(timeout[t], QueueEmpty) THEN QTimedOut(t) ELSE GetLoop(t)

\* the wait on queue->empty has returned
GetRelocked(t) ==
    /\ pc[t] = "relocked"
    /\ op[t] = "getmsg"
    /\ IF result[t] = ETIMEDOUT THEN QTimedOut(t) ELSE GetLoop(t)

\* pthread_cond_signal(&queue->full); return (0);
GetSignal(t) ==
    /\ pc[t] = "signal"
    /\ op[t] = "getmsg"
    /\ \E W \in pthread_cond_signal(full) :
          Returns(t, 0, W) /\ full' = full \ W
    /\ UNCHANGED <<qdata, qmutex, empty, hist, eside>>

\* ------------------------------------- pthread_queue_reset / _unreset

\* head = tail = count = 0; reset = 1; unlock
QResetLocked(t) ==
    /\ pc[t] = "locked"
    /\ op[t] = "qreset"
    /\ head' = 0
    /\ tail' = 0
    /\ count' = 0
    /\ qreset' = TRUE
    /\ qmutex' = {}
    /\ pc' = [pc EXCEPT ![t] = "signal"]
    /\ cancelled' = [u \in Threads |-> cancelled[u] \/ u \in full \/ u \in empty]
    /\ sent' = <<>>
    /\ rcvd' = <<>>
    /\ UNCHANGED <<op, timeout, msg, wmask, test, action, result, ret,
                  expired, badnsec, tmp>>
    /\ UNCHANGED <<qsize, buffer, full, empty, nextTag, eside>>

\* a reset that broadcasts both condition variables
ResetWakesAll == full \cup empty

\* pthread_cond_broadcast(&queue->full): the threads a reset wakes
ResetWakes == full

\* pthread_cond_broadcast(&queue->full); return 0;
QResetBroadcast(t) ==
    /\ pc[t] = "signal"
    /\ op[t] = "qreset"
    /\ Returns(t, 0, ResetWakes)
    /\ full' = full \ ResetWakes
    /\ empty' = empty \ ResetWakes
    /\ UNCHANGED <<qdata, qmutex, hist, eside>>

\* an unreset that flips the flag
ClearResetToggle(flag) == ~flag

\* queue->reset = 0; / event->reset = 0;: the flag after an unreset
ClearReset(flag) == FALSE

\* reset = 0; unlock; return 0;
QUnresetLocked(t) ==
    /\ pc[t] = "locked"
    /\ op[t] = "qunreset"
    /\ qreset' = ClearReset(qreset)
    /\ qmutex' = {}
    /\ Returns(t, 0, {})
    /\ UNCHANGED <<qsize, buffer, head, tail, count, full, empty, hist, eside>>

\* ------------------------------ condition waits ending without a signal

\* pthread_cond_timedwait reaches abstime: it returns ETIMEDOUT once the
\* mutex is re-acquired
QTimeout(t) ==
    /\ pc[t] = "waiting"
    /\ op[t] \in QueueOps
    /\ timeout[t] > 0
    /\ expired[t]
    /\ full' = full \ {t}
    /\ empty' = empty \ {t}
    /\ WaitEnds(t, ETIMEDOUT)
    /\ UNCHANGED <<qdata, qmutex, hist, eside>>

\* a spurious wakeup of a condition wait (POSIX allows it): returns 0
QSpurious(t) ==
    /\ pc[t] = "waiting"
    /\ op[t] \in QueueOps
    /\ full' = full \ {t}
    /\ empty' = empty \ {t}
    /\ WaitEnds(t, 0)
    /\ UNCHANGED <<qdata, qmutex, hist, eside>>

\* ------------------------------------------------ pthread_queue_destroy

\* pthread_queue_destroy(queue) by thread t: pthread_mutex_destroy,
\* pthread_cond_destroy of full and empty, free(queue->buffer), free(queue).
\* The queue is gone: its fields are no state of the program any more (the
\* variables get the values of a new queue, which nothing reads). With
\* another thread inside a call on the queue the behaviour is undefined, of
\* that thread and of the caller (pthread_cond_destroy may never return)
QDestroy(t) ==
    /\ shared = "queue"
    /\ Ready(t)
    /\ shared' = "queue destroyed"
    /\ IF Inside = {}
       THEN Enter(t, "qdestroy", 0, 0, 0, 0, 0, FALSE, 0)
       ELSE Undefined(t, "qdestroy", Inside \cup {t})
    /\ buffer' = [i \in 0..(qsize - 1) |-> 0]
    /\ head' = 0
    /\ tail' = 0
    /\ count' = 0
    /\ qreset' = FALSE
    /\ qmutex' = {}
    /\ full' = {}
    /\ empty' = {}
    /\ sent' = <<>>
    /\ rcvd' = <<>>
    /\ UNCHANGED <<qsize, nextTag, estate, destroyFree, tstate>>

\* a call o of thread t that uses the destroyed queue (every call but a
\* sendmsg or getmsg that fails its timeout check): the behaviour is
\* undefined: the call may return any int (pthread_queue_count read
\* 2779096485 in one run), crash or never return
QUseDestroyed(t, o) ==
    /\ shared = "queue destroyed"
    /\ Ready(t)
    /\ Undefined(t, o, {t})
    /\ UNCHANGED <<qstate, eside>>

\* the steps of the threads inside and into the calls on a queue
NextQCalls ==
    \E t \in Threads :
        \/ \E to \in TimeoutValues : SendCall(t, to)
        \/ \E to \in TimeoutValues : GetCall(t, to)
        \/ QResetCall(t)
        \/ QUnresetCall(t)
        \/ QCount(t)
        \/ QRelock(t)
        \/ SendLocked(t)
        \/ SendRelocked(t)
        \/ SendSignal(t)
        \/ GetLocked(t)
        \/ GetRelocked(t)
        \/ GetSignal(t)
        \/ QResetLocked(t)
        \/ QResetBroadcast(t)
        \/ QUnresetLocked(t)
        \/ QTimeout(t)
        \/ QSpurious(t)
        \/ DeadlinePasses(t)

\* the steps of the threads on the queue, pthread_queue_destroy included
NextQ ==
    \/ NextQCalls
    \/ \E t \in Threads :
          \/ QDestroy(t)
          \/ \E o \in QueueOps \cup {"qdestroy"} : QUseDestroyed(t, o)

\* the client created a queue
InitQ == Init /\ shared = "queue"

\* the client threads share a queue
SpecQ == InitQ /\ [][NextQ]_vars

\* the steps of the threads on a queue that is never reset or destroyed
NextQNoReset ==
    \E t \in Threads :
        \/ \E to \in TimeoutValues : SendCall(t, to)
        \/ \E to \in TimeoutValues : GetCall(t, to)
        \/ QCount(t)
        \/ QRelock(t)
        \/ SendLocked(t)
        \/ SendRelocked(t)
        \/ SendSignal(t)
        \/ GetLocked(t)
        \/ GetRelocked(t)
        \/ GetSignal(t)
        \/ QTimeout(t)
        \/ QSpurious(t)
        \/ DeadlinePasses(t)

\* ============================================================ the event

\* event->mutex is initialised and not destroyed
MutexAlive == shared = "event"

\* pthread_mutex_lock(&event->mutex) by thread t: it returns once t has the
\* mutex. On a destroyed mutex it returns EINVAL, which no caller looks at,
\* and t goes on without the mutex
ELock(t) ==
    IF MutexAlive
    THEN emutex = {} /\ emutex' = {t} /\ nusers' = nusers + 1
    ELSE UNCHANGED <<emutex, nusers>>

\* pthread_mutex_unlock(&event->mutex): the mutex is free, whoever held it;
\* on a destroyed mutex it returns EINVAL, which no caller looks at
EUnlock ==
    IF MutexAlive
    THEN emutex' = {} /\ nusers' = nusers - 1
    ELSE UNCHANGED <<emutex, nusers>>

\* where a thread is between pthread_mutex_lock and pthread_mutex_unlock of
\* an event call
CritPcs ==
    {"locked", "rmw", "flag", "looptest", "condwait", "relocked", "retest",
     "clear", "timedout", "unlock"}

\* where a thread is between two statements of pthread_event_create, named
\* by the statement it executes next
CreatePcs == {"mutex_init", "cond_init", "mask_init", "reset_init"}

\* where a thread is about to read or write a field of the event
RacingPcs == CritPcs \cup CreatePcs

\* event->mutex does its work for thread t: t holds it, no other thread is
\* inside a critical section of the event (as one is whose lock failed, or
\* whose mutex was initialised anew under it), and no pthread_event_create,
\* which takes no lock, is writing the event. Then nothing reads or writes
\* the fields between the statements of t's critical section, and the
\* section is one step. Otherwise its statements race with those of the
\* other threads and each access to the event is a step of its own
Exclusive(t) ==
    /\ MutexAlive
    /\ emutex = {t}
    /\ \A u \in Threads \ {t} : pc[u] \notin RacingPcs

\* a call of thread t on the event it shares:
\* pthread_mutex_lock(&event->mutex) when the arguments are valid; a call
\* that fails its argument check does not touch the event
EEnter(t, o, to, wm, tst, act, valid) ==
    /\ shared \in {"event", "event destroyed"}
          \/ (shared = "event freed" /\ ~valid)
    /\ Enter(t, o, to, 0, wm, tst, act, valid, EINVAL)
    /\ IF valid THEN ELock(t) ELSE UNCHANGED <<emutex, nusers>>
    /\ UNCHANGED <<emask, ereset, cond, wrefs, qside>>

\* pthread_event_set(event, mask): pthread_mutex_lock
SetCall(t, m) ==
    /\ Ready(t)
    /\ EEnter(t, "set", 0, m, 0, 0, TRUE)

\* pthread_event_clr(event, mask): pthread_mutex_lock
ClrCall(t, m) ==
    /\ Ready(t)
    /\ EEnter(t, "clr", 0, m, 0, 0, TRUE)

\* bound: a wait with a deadline is made on the event in the storage that
\* pthread_event_create allocated for it; on an event created in the
\* caller's storage the waits are polls and waits without a deadline
TimedWaitOffered == destroyFree

\* pthread_event_wait(event, mask, test, action, timeout): timeout check,
\* pthread_ext_ms2abs_time, pthread_mutex_lock
WaitCall(t, m, tst, act, to) ==
    /\ t \in Waiters
    /\ to > 0 => TimedWaitOffered
    /\ EEnter(t, "wait", to, m, tst, act, ~TimeoutInvalid(to))

\* pthread_event_reset: pthread_mutex_lock
EResetCall(t) ==
    /\ Ready(t)
    /\ EEnter(t, "ereset", 0, 0, 0, 0, TRUE)

\* pthread_event_unreset: pthread_mutex_lock
EUnresetCall(t) ==
    /\ Ready(t)
    /\ EEnter(t, "eunreset", 0, 0, 0, 0, TRUE)

\* pthread_event_current: return event->mask; (the mutex is not taken; the
\* mask of a destroyed event is still there as long as its storage is)
ECurrent(t) ==
    /\ shared \in {"event", "event destroyed"}
    /\ Enter(t, "current", 0, 0, 0, 0, 0, FALSE, emask)
    /\ UNCHANGED <<estate, qside>>

\* the condition wait re-acquires event->mutex before it returns. If the
\* mutex was destroyed meanwhile the lock fails and the wait returns EINVAL
\* in place of its result, the thread without the mutex
ERelock(t) ==
    /\ pc[t] = "woken"
    /\ op[t] \in EventOps
    /\ IF MutexAlive
       THEN emutex = {} /\ emutex' = {t} /\ Goto(t, "relocked")
       ELSE /\ pc' = [pc EXCEPT ![t] = "relocked"]
            /\ result' = [result EXCEPT ![t] = EINVAL]
            /\ UNCHANGED <<op, timeout, msg, wmask, test, action, ret,
                          cancelled, expired, badnsec, tmp>>
            /\ UNCHANGED emutex
    /\ UNCHANGED <<emask, ereset, nusers, cond, wrefs, qside>>

\* event->mask |= mask; unlock
SetLocked(t) ==
    /\ pc[t] = "locked"
    /\ op[t] = "set"
    /\ Exclusive(t)
    /\ emask' = BitOr(emask, wmask[t])
    /\ EUnlock
    /\ Goto(t, "signal")
    /\ UNCHANGED <<ereset, cond, wrefs, qside>>

\* pthread_cond_broadcast(&cond): the threads it takes out of the waiters:
\* all of them, unless the condition variable counts no waiter
pthread_cond_broadcast(waiters, refs) == IF refs = 0 THEN {} ELSE waiters

\* pthread_cond_broadcast(&event->cond); return 0; (set and reset)
EBroadcast(t) ==
    /\ pc[t] = "signal"
    /\ op[t] \in {"set", "ereset"}
    /\ Returns(t, 0, pthread_cond_broadcast(cond, wrefs))
    /\ cond' = cond \ pthread_cond_broadcast(cond, wrefs)
    /\ wrefs' = wrefs - Cardinality(pthread_cond_broadcast(cond, wrefs))
    /\ UNCHANGED <<emask, ereset, emutex, nusers, qside>>

\* event->mask &= ~mask; unlock; return 0;
ClrLocked(t) ==
    /\ pc[t] = "locked"
    /\ op[t] = "clr"
    /\ Exclusive(t)
    /\ emask' = BitClear(emask, wmask[t])
    /\ EUnlock
    /\ Returns(t, 0, {})
    /\ UNCHANGED <<ereset, cond, wrefs, qside>>

\* event->mask = 0; event->reset = 1; unlock
EResetLocked(t) ==
    /\ pc[t] = "locked"
    /\ op[t] = "ereset"
    /\ Exclusive(t)
    /\ emask' = 0
    /\ ereset' = TRUE
    /\ EUnlock
    /\ pc' = [pc EXCEPT ![t] = "signal"]
    /\ cancelled' = [u \in Threads |-> cancelled[u] \/ u \in cond]
    /\ UNCHANGED <<op, timeout, msg, wmask, test, action, result, ret,
                  expired, badnsec, tmp>>
    /\ UNCHANGED <<cond, wrefs, qside>>

\* event->reset = 0; unlock; return 0;
EUnresetLocked(t) ==
    /\ pc[t] = "locked"
    /\ op[t] = "eunreset"
    /\ Exclusive(t)
    /\ ereset' = ClearReset(ereset)
    /\ EUnlock
    /\ Returns(t, 0, {})
    /\ UNCHANGED <<emask, cond, wrefs, qside>>

\* ---------------------------------------------------- pthread_event_wait

\* the ETIMEDOUT returns of wait: unlock and return
WaitTimedOut(t) ==
    /\ EUnlock
    /\ Returns(t, ETIMEDOUT, {})
    /\ UNCHANGED <<emask, ereset, cond, wrefs, qside>>

\* a wakeup that always reports success
WakeResultSuccess(reset) == 0

\* result = event->reset ? ECANCELED : 0;
WakeResult(reset) == IF reset THEN ECANCELED ELSE 0

\* pthread_cond_wait / pthread_cond_timedwait(&event->cond, &event->mutex):
\* the mutex is released (it stays locked for pthread_mutex_destroy) and the
\* thread joins the waiters of event->cond; res is what result holds at
\* that point. A wait that returns EINVAL releases nothing; a timed wait
\* whose deadline has passed has left the waiters again
WaitBlock(t, res) ==
    /\ Block(t, res, Rejects(t) \/ ~MutexAlive)
    /\ cond' = IF pc'[t] = "waiting" THEN cond \cup {t} ELSE cond
    /\ wrefs' = IF pc'[t] = "waiting" THEN wrefs + 1 ELSE wrefs
    /\ emutex' = IF pc'[t] = "relocked" THEN emutex ELSE {}
    /\ UNCHANGED <<emask, ereset, nusers, qside>>

\* after the wait loop: if (PTHREAD_EVENT_CLEAR == action) mask &= ~mask;
\* unlock; return (result). A result never assigned yields any value
WaitExit(t, res) ==
    /\ emask' = IF PTHREAD_EVENT_CLEAR = action[t]
                THEN BitClear(emask, wmask[t])
                ELSE emask
    /\ EUnlock
    /\ \E code \in (IF res = Uninit THEN UninitValues ELSE {res}) :
          Returns(t, code, {})
    /\ UNCHANGED <<ereset, cond, wrefs, qside>>

\* while (!done && !event->reset) { wait }
WaitLoop(t, done, res) ==
    IF ~done /\ ~ereset THEN WaitBlock(t, res) ELSE WaitExit(t, res)

\* first critical section of wait: done is evaluated, then the poll test,
\* then the wait loop
WaitLocked(t) ==
    /\ pc[t] = "locked"
    /\ op[t] = "wait"
    /\ Exclusive(t)
    /\ IF PollFails(timeout[t], ~EventDone(test[t], wmask[t], emask))
       THEN WaitTimedOut(t)
       ELSE WaitLoop(t, EventDone(test[t], wmask[t], emask), result[t])

\* the wait on event->cond has returned: ETIMEDOUT ends the call (unlock
\* and return, which touch no field of the event); otherwise (0, EINVAL)
\* result = event->reset ? ECANCELED : 0, done is re-evaluated and the loop
\* condition is tested again
WaitRelocked(t) ==
    /\ pc[t] = "relocked"
    /\ op[t] = "wait"
    /\ IF result[t] = ETIMEDOUT
       THEN WaitTimedOut(t)
       ELSE /\ Exclusive(t)
            /\ WaitLoop(t, EventDone(test[t], wmask[t], emask),
                        WakeResult(ereset))

\* ------------------ the statements of a critical section without exclusion

\* thread t goes on to p inside its call, result holding res
Step(t, p, res) ==
    /\ pc' = [pc EXCEPT ![t] = p]
    /\ result' = [result EXCEPT ![t] = res]
    /\ UNCHANGED <<op, timeout, msg, wmask, test, action, ret, cancelled,
                  expired, badnsec>>

\* event->mask |= mask; (set) and event->mask &= ~mask; (clr, and wait with
\* PTHREAD_EVENT_CLEAR): the load of event->mask and the | or & ~ on the
\* value loaded
MaskLoad(t) ==
    /\ \/ pc[t] = "locked" /\ op[t] \in {"set", "clr"} /\ ~Exclusive(t)
       \/ pc[t] = "clear"
    /\ tmp' = [tmp EXCEPT ![t] = IF op[t] = "set"
                                 THEN BitOr(emask, wmask[t])
                                 ELSE BitClear(emask, wmask[t])]
    /\ Step(t, "rmw", result[t])
    /\ UNCHANGED <<estate, qside>>

\* event->mask |= mask; and event->mask &= ~mask;: the store of the value
\* computed
MaskStore(t) ==
    /\ pc[t] = "rmw"
    /\ emask' = tmp[t]
    /\ tmp' = [tmp EXCEPT ![t] = 0]
    /\ Step(t, "unlock", result[t])
    /\ UNCHANGED <<ereset, emutex, nusers, cond, wrefs, qside>>

\* pthread_event_reset: event->mask = 0;
ResetMask(t) ==
    /\ pc[t] = "locked"
    /\ op[t] = "ereset"
    /\ ~Exclusive(t)
    /\ emask' = 0
    /\ Goto(t, "flag")
    /\ UNCHANGED <<ereset, emutex, nusers, cond, wrefs, qside>>

\* pthread_event_reset: event->reset = 1; pthread_event_unreset:
\* event->reset = 0;
ResetStore(t) ==
    /\ \/ pc[t] = "flag"
       \/ pc[t] = "locked" /\ op[t] = "eunreset" /\ ~Exclusive(t)
    /\ ereset' = IF op[t] = "ereset" THEN TRUE ELSE ClearReset(ereset)
    /\ pc' = [pc EXCEPT ![t] = "unlock"]
    /\ cancelled' = [u \in Threads |->
                       cancelled[u] \/ (op[t] = "ereset" /\ u \in cond)]
    /\ UNCHANGED <<op, timeout, msg, wmask, test, action, result, ret,
                  expired, badnsec, tmp>>
    /\ UNCHANGED <<emask, emutex, nusers, cond, wrefs, qside>>

\* the exit of the wait loop: PTHREAD_EVENT_CLEAR == action leads to
\* event->mask &= ~mask, anything else to the unlock
AfterLoop(t) == IF PTHREAD_EVENT_CLEAR = action[t] THEN "clear" ELSE "unlock"

\* done = test of event->mask against mask, before the loop (with the poll
\* test that follows it) and at the end of a turn of the loop (with the
\* first half of the loop condition, !done): the load of event->mask
WaitTest(t) ==
    /\ \/ pc[t] = "locked" /\ op[t] = "wait" /\ ~Exclusive(t)
       \/ pc[t] = "retest"
    /\ Goto(t, IF pc[t] = "locked"
                  /\ PollFails(timeout[t],
                               ~EventDone(test[t], wmask[t], emask))
               THEN "timedout"
               ELSE IF EventDone(test[t], wmask[t], emask)
               THEN AfterLoop(t)
               ELSE "looptest")
    /\ UNCHANGED <<estate, qside>>

\* while (!done && !event->reset), done being 0: the load of event->reset
WaitLoopTest(t) ==
    /\ pc[t] = "looptest"
    /\ Goto(t, IF ereset THEN AfterLoop(t) ELSE "condwait")
    /\ UNCHANGED <<estate, qside>>

\* the call of pthread_cond_wait / pthread_cond_timedwait in the loop
WaitCondWait(t) ==
    /\ pc[t] = "condwait"
    /\ WaitBlock(t, result[t])

\* the wait on event->cond has returned 0 or EINVAL:
\* result = event->reset ? ECANCELED : 0;: the load of event->reset
WaitWake(t) ==
    /\ pc[t] = "relocked"
    /\ op[t] = "wait"
    /\ result[t] # ETIMEDOUT
    /\ ~Exclusive(t)
    /\ Step(t, "retest", WakeResult(ereset))
    /\ UNCHANGED <<tmp, estate, qside>>

\* pthread_mutex_unlock(&event->mutex) at the end of a critical section,
\* and what follows it without touching the event: set and reset go on to
\* their broadcast, clr and unreset return 0, wait returns ETIMEDOUT after
\* the poll test and result after the loop
Unlock(t) ==
    /\ pc[t] \in {"unlock", "timedout"}
    /\ EUnlock
    /\ IF op[t] \in {"set", "ereset"}
       THEN Goto(t, "signal")
       ELSE \E code \in (IF op[t] # "wait" THEN {0}
                         ELSE IF pc[t] = "timedout" THEN {ETIMEDOUT}
                         ELSE IF result[t] = Uninit THEN UninitValues
                         ELSE {result[t]}) :
               Returns(t, code, {})
    /\ UNCHANGED <<emask, ereset, cond, wrefs, qside>>

\* pthread_cond_timedwait reaches abstime
ETimeout(t) ==
    /\ pc[t] = "waiting"
    /\ op[t] = "wait"
    /\ timeout[t] > 0
    /\ expired[t]
    /\ cond' = cond \ {t}
    /\ wrefs' = wrefs - 1
    /\ WaitEnds(t, ETIMEDOUT)
    /\ UNCHANGED <<emask, ereset, emutex, nusers, qside>>

\* a spurious wakeup of the condition wait (POSIX allows it): returns 0
ESpurious(t) ==
    /\ pc[t] = "waiting"
    /\ op[t] = "wait"
    /\ cond' = cond \ {t}
    /\ wrefs' = wrefs - 1
    /\ WaitEnds(t, 0)
    /\ UNCHANGED <<emask, ereset, emutex, nusers, qside>>

\* ------------------------- pthread_event_create / pthread_event_destroy

\* bound: pthread_event_create is not called on the event while a wait
\* with a deadline runs
NoTimedWait == \A u \in Inside : timeout[u] <= 0

\* pthread_event_create(&event) by thread t with event pointing at the
\* shared event, alive or destroyed but not freed. The function takes no
\* lock: its statements are steps of their own, between which the other
\* threads run. The first: event->destroyFree = 0;
ECreate(t) ==
    /\ shared \in {"event", "event destroyed"}
    /\ Ready(t)
    /\ NoTimedWait
    /\ destroyFree' = FALSE
    /\ pc' = [pc EXCEPT ![t] = "mutex_init"]
    /\ op' = [op EXCEPT ![t] = "create"]
    /\ timeout' = [timeout EXCEPT ![t] = 0]
    /\ msg' = [msg EXCEPT ![t] = 0]
    /\ ret' = [ret EXCEPT ![t] = 0]
    /\ UNCHANGED <<wmask, test, action, result, cancelled, expired, badnsec,
                  tmp>>
    /\ UNCHANGED <<shared, estate, qstate, tstate>>

\* pthread_mutex_init(&event->mutex, NULL); the mutex is free and counts no
\* lock, whoever held the one it replaces: a thread inside a critical
\* section stays where it is
CreateMutex(t) ==
    /\ pc[t] = "mutex_init"
    /\ shared' = "event"
    /\ emutex' = {}
    /\ nusers' = 0
    /\ Goto(t, "cond_init")
    /\ UNCHANGED <<emask, ereset, cond, wrefs>>
    /\ UNCHANGED <<qstate, destroyFree, tstate>>

\* pthread_cond_init(&event->cond, NULL); the condition variable has and
\* counts no waiters; a thread blocked on the one it replaces stays blocked
CreateCond(t) ==
    /\ pc[t] = "cond_init"
    /\ cond' = {}
    /\ wrefs' = 0
    /\ Goto(t, "mask_init")
    /\ UNCHANGED <<emask, ereset, emutex, nusers, qside>>

\* event->mask = 0;
CreateMask(t) ==
    /\ pc[t] = "mask_init"
    /\ emask' = 0
    /\ Goto(t, "reset_init")
    /\ UNCHANGED <<ereset, emutex, nusers, cond, wrefs, qside>>

\* event->reset = 0; return 0;
CreateReset(t) ==
    /\ pc[t] = "reset_init"
    /\ ereset' = FALSE
    /\ Returns(t, 0, {})
    /\ UNCHANGED <<emask, emutex, nusers, cond, wrefs, qside>>

\* pthread_event_destroy(event) by thread t, first statement:
\* pthread_mutex_destroy(&event->mutex) destroys the mutex if it counts no
\* lock and fails with EBUSY, which the code does not look at, if it does
\* (a thread holds it or waits with it on event->cond). A destroyed mutex
\* is no lock any more: it has no holder
EDestroyCall(t) ==
    /\ shared \in {"event", "event destroyed"}
    /\ Ready(t)
    /\ shared' = IF nusers = 0 THEN "event destroyed" ELSE shared
    /\ emutex' = IF nusers = 0 THEN {} ELSE emutex
    /\ pc' = [pc EXCEPT ![t] = "destroying"]
    /\ op' = [op EXCEPT ![t] = "edestroy"]
    /\ timeout' = [timeout EXCEPT ![t] = 0]
    /\ msg' = [msg EXCEPT ![t] = 0]
    /\ ret' = [ret EXCEPT ![t] = 0]
    /\ UNCHANGED <<wmask, test, action, result, cancelled, expired, badnsec,
                  tmp>>
    /\ UNCHANGED <<emask, ereset, nusers, cond, wrefs>>
    /\ UNCHANGED <<qstate, destroyFree, tstate>>

\* the fields of an event that is freed are no state of the program any
\* more: the variables get the values of a new event, which nothing reads
EFreed ==
    /\ emask' = 0
    /\ ereset' = FALSE
    /\ emutex' = {}
    /\ nusers' = 0
    /\ cond' = {}
    /\ wrefs' = 0

\* pthread_event_destroy(event) by thread t, second statement:
\* pthread_cond_destroy(&event->cond) returns once the condition variable
\* counts no waiter (it goes on working afterwards)
EDestroyCond(t) ==
    /\ pc[t] = "destroying"
    /\ wrefs = 0
    /\ Goto(t, "destroy_test")
    /\ UNCHANGED <<estate, qside>>

\* if (event->destroyFree)
EDestroyTest(t) ==
    /\ pc[t] = "destroy_test"
    /\ IF destroyFree THEN Goto(t, "freeing") ELSE Returns(t, 0, {})
    /\ UNCHANGED <<estate, qside>>

\* free(event); the behaviour of a thread inside a call on an event that is
\* freed is undefined
EDestroyFree(t) ==
    /\ pc[t] = "freeing"
    /\ shared' = "event freed"
    /\ EFreed
    /\ pc' = [u \in Threads |->
                IF u = t THEN "done"
                ELSE IF u \in Inside THEN "undefined" ELSE pc[u]]
    /\ timeout' = [u \in Threads |-> IF u \in Inside THEN 0 ELSE timeout[u]]
    /\ msg' = [u \in Threads |-> IF u \in Inside THEN 0 ELSE msg[u]]
    /\ wmask' = [u \in Threads |-> IF u \in Inside THEN 0 ELSE wmask[u]]
    /\ test' = [u \in Threads |-> IF u \in Inside THEN 0 ELSE test[u]]
    /\ action' = [u \in Threads |-> IF u \in Inside THEN 0 ELSE action[u]]
    /\ result' = [u \in Threads |->
                    IF u \in Inside THEN Uninit ELSE result[u]]
    /\ ret' = [u \in Threads |-> IF u \in Inside THEN 0 ELSE ret[u]]
    /\ cancelled' = [u \in Threads |->
                       IF u \in Inside THEN FALSE ELSE cancelled[u]]
    /\ expired' = [u \in Threads |->
                     IF u \in Inside THEN FALSE ELSE expired[u]]
    /\ badnsec' = [u \in Threads |->
                     IF u \in Inside THEN FALSE ELSE badnsec[u]]
    /\ tmp' = [u \in Threads |-> IF u \in Inside THEN 0 ELSE tmp[u]]
    /\ UNCHANGED op
    /\ UNCHANGED <<qstate, destroyFree, tstate>>

\* a call o of thread t on the event after it was freed (every call but a
\* wait that fails its timeout check): the behaviour is undefined: the call
\* may return any int, crash or never return
EUseDestroyed(t, o) ==
    /\ shared = "event freed"
    /\ Ready(t)
    /\ o = "wait" => t \in Waiters
    /\ Undefined(t, o, {t})
    /\ UNCHANGED <<estate, qside>>

\* the steps of the threads inside and into the calls on an event
NextECalls ==
    \E t \in Threads :
        \/ \E m \in SetMasks : SetCall(t, m)
        \/ \E m \in SetMasks : ClrCall(t, m)
        \/ \E m \in WaitMasks, to \in TimeoutValues :
             \E tst \in {PTHREAD_EVENT_ANY, PTHREAD_EVENT_ALL},
                act \in {PTHREAD_EVENT_CLEAR, PTHREAD_EVENT_KEEP} :
                  WaitCall(t, m, tst, act, to)
        \/ EResetCall(t)
        \/ EUnresetCall(t)
        \/ ECurrent(t)
        \/ ERelock(t)
        \/ SetLocked(t)
        \/ EBroadcast(t)
        \/ ClrLocked(t)
        \/ EResetLocked(t)
        \/ EUnresetLocked(t)
        \/ WaitLocked(t)
        \/ WaitRelocked(t)
        \/ ETimeout(t)
        \/ ESpurious(t)
        \/ DeadlinePasses(t)

\* the steps of the threads on the event, pthread_event_create on the event
\* itself and pthread_event_destroy included, and with them the statements
\* of the critical sections that run without exclusion
NextE ==
    \/ NextECalls
    \/ \E t \in Threads :
          \/ MaskLoad(t)
          \/ MaskStore(t)
          \/ ResetMask(t)
          \/ ResetStore(t)
          \/ WaitTest(t)
          \/ WaitLoopTest(t)
          \/ WaitCondWait(t)
          \/ WaitWake(t)
          \/ Unlock(t)
          \/ ECreate(t)
          \/ CreateMutex(t)
          \/ CreateCond(t)
          \/ CreateMask(t)
          \/ CreateReset(t)
          \/ EDestroyCall(t)
          \/ EDestroyCond(t)
          \/ EDestroyTest(t)
          \/ EDestroyFree(t)
          \/ \E o \in EventOps \cup {"create", "edestroy"} :
                EUseDestroyed(t, o)

\* the client created an event
InitE == Init /\ shared = "event"

\* the client threads share an event that lives on: it is neither created
\* anew nor destroyed
SpecELive == InitE /\ [][NextECalls]_vars

\* the client threads share an event
SpecE == InitE /\ [][NextE]_vars

\* the steps of the threads on an event that is never reset, created anew
\* or destroyed
NextENoReset ==
    \E t \in Threads :
        \/ \E m \in SetMasks : SetCall(t, m)
        \/ \E m \in SetMasks : ClrCall(t, m)
        \/ \E m \in WaitMasks, to \in TimeoutValues :
             \E tst \in {PTHREAD_EVENT_ANY, PTHREAD_EVENT_ALL},
                act \in {PTHREAD_EVENT_CLEAR, PTHREAD_EVENT_KEEP} :
                  WaitCall(t, m, tst, act, to)
        \/ ECurrent(t)
        \/ ERelock(t)
        \/ SetLocked(t)
        \/ EBroadcast(t)
        \/ ClrLocked(t)
        \/ WaitLocked(t)
        \/ WaitRelocked(t)
        \/ ETimeout(t)
        \/ ESpurious(t)
        \/ DeadlinePasses(t)

\* the step of thread t inside a call that owns the mutex, has just
\* released it, or is in a timed wait whose deadline has passed
ThreadStep(t) ==
    \/ SendLocked(t) \/ SendRelocked(t) \/ SendSignal(t)
    \/ GetLocked(t) \/ GetRelocked(t) \/ GetSignal(t)
    \/ QTimeout(t)
    \/ SetLocked(t) \/ EBroadcast(t) \/ ClrLocked(t)
    \/ WaitLocked(t) \/ WaitRelocked(t)
    \/ ETimeout(t)

\* fair scheduling: a thread inside a call goes on running and a timed wait
\* whose deadline has passed ends; a thread that needs the mutex to leave
\* its condition wait gets it if it is free again and again; the clock
\* advances. Nothing obliges a client to make a call or a spurious wakeup to
\* happen
Fair ==
    \A t \in Threads :
        /\ WF_vars(ThreadStep(t))
        /\ SF_vars(QRelock(t) \/ ERelock(t))
        /\ WF_vars(DeadlinePasses(t))

\* the client threads share a queue that is never reset, under fair
\* scheduling
SpecQFair == InitQ /\ [][NextQNoReset]_vars /\ Fair

\* a step of a client thread on an object that is never reset
NextNoReset == NextQNoReset \/ NextENoReset

\* the client threads share a queue or an event that is never reset, under
\* fair scheduling
SpecFair == Init /\ [][NextNoReset]_vars /\ Fair

\* a step of a client thread on the object it shares: a queue, which may be
\* destroyed, or an event that lives on
Next == NextQ \/ NextECalls

\* the client threads share a queue or an event
Spec == Init /\ [][Next]_vars

\* ================================================ pthread_ext_ms2abs_time

\* the clock readings looked at: seconds 0..MaxSec, nanoseconds a whole
\* number of milliseconds near both ends of the second and in its middle,
\* plus 0, 1 or 999999 ns
Readings ==
    {<<sec, k * 1000000 + f>> :
        sec \in 0..MaxSec,
        k \in (0..MaxMs) \cup {500} \cup ((999 - MaxMs)..999),
        f \in {0, 1, 999999}}

\* the ms arguments looked at: 1..MaxMs, and around each whole second up
\* to MaxSec
MsValues ==
    (1..MaxMs)
    \cup {1000 * sec + r : sec \in 0..MaxSec, r \in {500, 999}}
    \cup {1000 * sec + r : sec \in 1..MaxSec, r \in 0..MaxMs}

\* a caller is about to convert ms (> 0, as at the call sites) at a moment
\* when the clock reads clock
InitT ==
    /\ TInit
    /\ EInit
    /\ QCreate(1)
    /\ shared = "none"
    /\ tpc = "call"
    /\ ms \in MsValues
    /\ clock \in Readings
    /\ tspec = <<0, 0>>

\* clock_gettime(CLOCK_REALTIME, abstime);
ClockGettime ==
    /\ tpc = "call"
    /\ tspec' = clock
    /\ tpc' = "read"
    /\ UNCHANGED <<shared, destroyFree, ms, clock>>
    /\ UNCHANGED <<qstate, estate, pc, frame>>

\* the additions and the carry
AddAndCarry ==
    /\ tpc = "read"
    /\ tspec' = Normalise(AddMs(ms, tspec))
    /\ tpc' = "done"
    /\ UNCHANGED <<shared, destroyFree, ms, clock>>
    /\ UNCHANGED <<qstate, estate, pc, frame>>

NextT == ClockGettime \/ AddAndCarry

\* one call of pthread_ext_ms2abs_time
SpecT == InitT /\ [][NextT]_vars

\* =================================================== thread cancellation

\* a cleanup handler that releases nothing
cleanup_handler_noop(holders) == holders

\* static void cleanup_handler(void *arg): pthread_mutex_unlock(arg); the
\* holders of the mutex after it has run
cleanup_handler(holders) == {}

\* bound: the threads pthread_cancel is called on
CancelTargets == {1}

\* thread t, blocked in pthread_cond_wait / pthread_cond_timedwait (a
\* cancellation point), acts on a pthread_cancel: it stops waiting; the
\* mutex is re-acquired before the cleanup handlers run
ThreadCancel(t) ==
    /\ t \in CancelTargets
    /\ pc[t] \in {"waiting", "woken"}
    /\ full' = full \ {t}
    /\ empty' = empty \ {t}
    /\ cond' = cond \ {t}
    /\ wrefs' = IF pc[t] = "waiting" /\ op[t] \in EventOps
                THEN wrefs - 1
                ELSE wrefs
    /\ Goto(t, "cancelling")
    /\ UNCHANGED <<qdata, qmutex, hist, emask, ereset, emutex, nusers,
                  world>>

\* the cancelled thread re-acquires the mutex it waited with
CancelRelock(t) ==
    /\ pc[t] = "cancelling"
    /\ IF op[t] \in QueueOps
       THEN qmutex = {} /\ qmutex' = {t} /\ UNCHANGED emutex
       ELSE emutex = {} /\ emutex' = {t} /\ UNCHANGED qmutex
    /\ Goto(t, "cleanup")
    /\ UNCHANGED <<qdata, full, empty, hist, emask, ereset, nusers, cond,
                  wrefs, world>>

\* the handler pushed by pthread_cleanup_push(cleanup_handler, &mutex) runs
\* and the thread terminates
CancelCleanup(t) ==
    /\ pc[t] = "cleanup"
    /\ IF op[t] \in QueueOps
       THEN qmutex' = cleanup_handler(qmutex) /\ UNCHANGED emutex
       ELSE emutex' = cleanup_handler(emutex) /\ UNCHANGED qmutex
    /\ nusers' = IF op[t] \in EventOps /\ emutex' # emutex
                 THEN nusers - 1
                 ELSE nusers
    /\ Goto(t, "dead")
    /\ UNCHANGED <<qdata, full, empty, hist, emask, ereset, cond, wrefs,
                  world>>

NextCancel ==
    \E t \in Threads :
        \/ ThreadCancel(t)
        \/ CancelRelock(t)
        \/ CancelCleanup(t)

\* the client threads share a queue or an event, which lives on, and may be
\* cancelled
SpecCancel == Init /\ [][NextQCalls \/ NextECalls \/ NextCancel]_vars

\* =========================================================== properties

\* occurrences of x in the sequence s
Occ(s, x) == Cardinality({i \in 1..Len(s) : s[i] = x})

\* -------------------------------------------------------------------- C1
\* C1: in every reachable state of a queue created with capacity > 0,
\* whatever sendmsg, getmsg, reset and unreset calls the threads interleave,
\* 0 <= count <= capacity, head and tail lie in [0, capacity), and
\* tail = (head + count) mod capacity.
QueueStructure ==
    /\ 0 <= count
    /\ count <= qsize
    /\ head \in 0..(qsize - 1)
    /\ tail \in 0..(qsize - 1)
    /\ tail = (head + count) % qsize

\* a queue of more than one slot is full with its oldest message past slot
\* 0: the messages lie across the end of the buffer and tail has wrapped
\* (tail = head: (head + count) mod capacity is needed to place it)
QueueFullAcrossEnd ==
    /\ qsize > 1
    /\ count = qsize
    /\ head > 0
    /\ ~qreset

\* -------------------------------------------------------------------- C2
\* C2: with no reset in between, the k-th message received is the k-th
\* message sent: the messages received since the last reset are, in order,
\* the first of the messages sent since then; this includes sends and
\* receives whose slot index wrapped around the end of the buffer.
FifoOrder ==
    /\ Len(rcvd) <= Len(sent)
    /\ \A k \in 1..Len(rcvd) : rcvd[k] = sent[k]

\* more messages than the queue has slots (and than one slot) went through
\* it in order without a reset, so both head and tail have wrapped
FifoWrapped ==
    /\ qsize > 1
    /\ Len(rcvd) > qsize
    /\ rcvd = sent

\* -------------------------------------------------------------------- C3
\* C3: while two threads interleave sendmsg and getmsg with no reset, every
\* message sent (each carries its own tag) was received exactly once or is
\* still queued exactly once, never both; no message is received twice, and
\* no message is received that was not sent.
NoLossNoDuplication ==
    /\ \A k \in 1..Len(rcvd) : Occ(sent, rcvd[k]) = 1
    /\ \A x \in 1..MaxMsgs :
          /\ Occ(rcvd, x) <= 1
          /\ Occ(sent, x) = Occ(rcvd, x) + Occ(Content, x)

\* both threads are inside a send at once (one has copied its message in and
\* is about to signal, the other is blocked on the full queue or on its way
\* back from that) and a message has been received
ConcurrentSendsAndReceive ==
    /\ Len(rcvd) >= 1
    /\ count >= 1
    /\ \E t \in Threads, u \in Threads :
          /\ t # u
          /\ op[t] = "sendmsg" /\ pc[t] = "signal"
          /\ op[u] = "sendmsg" /\ pc[u] \in {"waiting", "woken", "relocked"}

\* ------------------------------------------------------------------- C10
\* C10: a sendmsg with timeout PTHREAD_NOWAIT that finds the queue full
\* (count = capacity) and a getmsg with timeout PTHREAD_NOWAIT that finds it
\* empty (count = 0) return ETIMEDOUT in that very step, without waiting,
\* and leave count, head, tail and the stored messages as they were (on a
\* queue that is not destroyed under the call).
PollNeverBlocks ==
    [][\A t \in Threads :
          ( /\ pc[t] = "locked"
            /\ pc'[t] \notin {"locked", "undefined"}
            /\ timeout[t] = PTHREAD_NOWAIT
            /\ \/ op[t] = "sendmsg" /\ count = qsize
               \/ op[t] = "getmsg" /\ count = 0 )
          => ( /\ pc'[t] = "done"
               /\ ret'[t] = ETIMEDOUT
               /\ UNCHANGED <<count, head, tail, buffer>> )]_vars

\* one thread has polled a send on the full queue, the other a receive on
\* the empty queue, and both got ETIMEDOUT
PolledFullAndEmpty ==
    \E t \in Threads, u \in Threads :
        /\ pc[t] = "done" /\ op[t] = "sendmsg"
        /\ timeout[t] = PTHREAD_NOWAIT /\ ret[t] = ETIMEDOUT
        /\ pc[u] = "done" /\ op[u] = "getmsg"
        /\ timeout[u] = PTHREAD_NOWAIT /\ ret[u] = ETIMEDOUT

\* -------------------------------------------------------------------- C4
\* C4: a sender that was blocked on the full queue (waiting forever) when a
\* reset ran never places its message in the queue and returns ECANCELED,
\* whatever runs before it re-acquires the mutex, an unreset included.
ResetCancelsBlockedSenders ==
    [][\A t \in Threads :
          ( /\ op[t] = "sendmsg"
            /\ timeout[t] = PTHREAD_WAIT
            /\ cancelled[t] )
          => ( /\ sent' # Append(sent, msg[t])
               /\ (pc[t] # "done" /\ pc'[t] = "done") => ret'[t] = ECANCELED )
      ]_vars

\* a sender blocked forever on the full queue was woken by a reset, the
\* reset was lifted by an unreset, and the sender has re-acquired the mutex
CancelledSenderAfterUnreset ==
    \E t \in Threads :
        /\ op[t] = "sendmsg"
        /\ timeout[t] = PTHREAD_WAIT
        /\ cancelled[t]
        /\ pc[t] = "relocked"
        /\ ~qreset

\* -------------------------------------------------------------------- C5
\* C5: a thread that was blocked in pthread_event_wait (waiting forever)
\* when a reset ran returns ECANCELED, whatever set and unreset calls run
\* before it re-acquires the mutex.
ResetCancelsBlockedWaiters ==
    [][\A t \in Threads :
          ( /\ op[t] = "wait"
            /\ timeout[t] = PTHREAD_WAIT
            /\ cancelled[t]
            /\ pc[t] # "done"
            /\ pc'[t] = "done" )
          => ret'[t] = ECANCELED]_vars

\* a waiter blocked forever was woken by a reset, the reset was lifted by an
\* unreset, and the waiter has re-acquired the mutex
CancelledWaiterAfterUnreset ==
    \E t \in Threads :
        /\ op[t] = "wait"
        /\ timeout[t] = PTHREAD_WAIT
        /\ cancelled[t]
        /\ pc[t] = "relocked"
        /\ ~ereset

\* -------------------------------------------------------------------- C6
\* the predicate the test argument selects: ANY: (current & mask) != 0,
\* ALL: (current & mask) == mask
Satisfied(tst, m, cur) ==
    IF tst = PTHREAD_EVENT_ANY THEN BitAnd(cur, m) # 0 ELSE BitAnd(cur, m) = m

\* C6: whenever a wait on a non-reset event, for a mask naming at least one
\* bit, evaluates whether to go on waiting (at entry and after each wakeup),
\* it stops waiting exactly when the predicate its test argument selects is
\* true; so a wait with test ANY for two bits ends once one of them is set.
\* (Going on waiting is blocking, timing out, or going round the loop when
\* the timed wait returns EINVAL.)
WaitUsesTestPredicate ==
    [][\A t \in Threads :
          ( /\ op[t] = "wait"
            /\ pc[t] \in {"locked", "relocked"}
            /\ pc'[t] # pc[t]
            /\ result[t] # ETIMEDOUT
            /\ wmask[t] # 0
            /\ ~ereset )
          => IF Satisfied(test[t], wmask[t], emask)
             THEN pc'[t] = "done"
             ELSE \/ pc'[t] = "waiting"
                  \/ ret'[t] = ETIMEDOUT
                  \/ pc'[t] = "woken" /\ result'[t] = ETIMEDOUT
                  \/ pc'[t] = "relocked" /\ result'[t] = EINVAL]_vars

\* a wait with test ANY for more than one bit is blocked although one of its
\* bits is set and no reset is active
AnyWaiterBlockedWithBitSet ==
    \E t \in Threads :
        /\ op[t] = "wait"
        /\ pc[t] = "waiting"
        /\ test[t] = PTHREAD_EVENT_ANY
        /\ BitAnd(emask, wmask[t]) # 0
        /\ BitAnd(emask, wmask[t]) # wmask[t]
        /\ ~ereset

\* -------------------------------------------------------------------- C7
\* C7: a waiter that blocked with test ALL and timeout forever returns 0
\* only in a state where every bit of its mask is set; with action KEEP the
\* bits of its mask are all still set after the return, with action CLEAR
\* they are all 0 after it.
AllWaitNotEarly ==
    [][\A t \in Threads :
          ( /\ op[t] = "wait"
            /\ pc[t] = "relocked"
            /\ test[t] = PTHREAD_EVENT_ALL
            /\ timeout[t] = PTHREAD_WAIT
            /\ pc'[t] = "done"
            /\ ret'[t] = 0 )
          => ( /\ BitAnd(emask, wmask[t]) = wmask[t]
               /\ action[t] = PTHREAD_EVENT_KEEP
                    => BitAnd(emask', wmask[t]) = wmask[t]
               /\ action[t] = PTHREAD_EVENT_CLEAR
                    => BitAnd(emask', wmask[t]) = 0 )]_vars

\* a waiter with test ALL, timeout forever and action CLEAR for every bit
\* has blocked, was woken with result 0 and holds the mutex again in a state
\* where all its bits are set and no reset is active: it returns 0 next
AllWaiterAboutToSucceed ==
    \E t \in Threads :
        /\ op[t] = "wait"
        /\ pc[t] = "relocked"
        /\ result[t] = 0
        /\ test[t] = PTHREAD_EVENT_ALL
        /\ timeout[t] = PTHREAD_WAIT
        /\ action[t] = PTHREAD_EVENT_CLEAR
        /\ wmask[t] = 2 ^ MaskBits - 1
        /\ emask = wmask[t]
        /\ ~ereset

\* -------------------------------------------------------------------- C8
\* C8: a wait (test ALL, a mask naming at least one bit, any valid timeout)
\* that finds every bit of its mask set when it enters, on a non-reset
\* event, returns 0 in that step, without blocking.
SatisfiedWaitReturnsSuccess ==
    [][\A t \in Threads :
          ( /\ op[t] = "wait"
            /\ pc[t] = "locked"
            /\ pc'[t] # "locked"
            /\ test[t] = PTHREAD_EVENT_ALL
            /\ wmask[t] # 0
            /\ BitAnd(emask, wmask[t]) = wmask[t]
            /\ ~ereset )
          => ( pc'[t] = "done" /\ ret'[t] = 0 )]_vars

\* a wait with test ALL has entered on a non-reset event where every bit of
\* its mask is already set: it has not blocked and result is not assigned
SatisfiedAtEntry ==
    \E t \in Threads :
        /\ op[t] = "wait"
        /\ pc[t] = "locked"
        /\ test[t] = PTHREAD_EVENT_ALL
        /\ wmask[t] # 0
        /\ BitAnd(emask, wmask[t]) = wmask[t]
        /\ result[t] = Uninit
        /\ ~ereset

\* -------------------------------------------------------------------- C9
\* thread t has returned from function o, which rejected its timeout
Rejected(t, o) ==
    /\ pc[t] = "done"
    /\ op[t] = o
    /\ timeout[t] < 0
    /\ timeout[t] # -1
    /\ ret[t] = EINVAL

\* C9: a call of pthread_event_wait, pthread_queue_sendmsg or
\* pthread_queue_getmsg with a timeout that is negative and not -1 returns
\* EINVAL in its first step, takes no mutex, joins no condition variable and
\* leaves mask, reset flags, count, head, tail and the buffer unchanged.
InvalidTimeoutRejected ==
    [][\A t \in Threads :
          ( /\ pc[t] \in {"idle", "done"}
            /\ <<pc[t], op[t], timeout[t], ret[t]>>
                 # <<pc'[t], op'[t], timeout'[t], ret'[t]>>
            /\ op'[t] \in {"wait", "sendmsg", "getmsg"}
            /\ timeout'[t] < 0
            /\ timeout'[t] # -1 )
          => ( /\ pc'[t] = "done"
               /\ ret'[t] = EINVAL
               /\ UNCHANGED <<emask, ereset, emutex, cond>>
               /\ UNCHANGED <<qsize, buffer, head, tail, count, qreset>>
               /\ UNCHANGED <<qmutex, full, empty, sent, rcvd>> )]_vars

\* one thread's sendmsg and the other's getmsg were both rejected for their
\* timeout while the queue held a message
BothRejected ==
    \E t \in Threads, u \in Threads :
        /\ Rejected(t, "sendmsg")
        /\ Rejected(u, "getmsg")
        /\ count > 0

\* ------------------------------------------------------------------- C11
\* C11: in every reachable state in which the event is reset (between a
\* reset and the next unreset) the event mask is 0, whatever set, clr and
\* wait calls run in between.
MaskZeroWhileReset == ereset => emask = 0

\* a set of at least one bit holds the mutex of the event while the event
\* is reset
SetInsideReset ==
    \E t \in Threads :
        /\ op[t] = "set"
        /\ pc[t] = "locked"
        /\ wmask[t] # 0
        /\ ereset

\* ------------------------------------------------------------------- C12
\* C12 as stated: in every reachable state in which the queue is reset
\* count is 0, and every sendmsg that has taken the mutex while the queue is
\* reset (at entry, or re-acquired inside its condition wait) returns
\* ECANCELED in its next step and leaves count, head, tail and the buffer
\* unchanged (on a queue that is not destroyed under the call).
SendUnderResetCancelled ==
    /\ [](qreset => count = 0)
    /\ [][\A t \in Threads :
            ( /\ op[t] = "sendmsg"
              /\ pc[t] \in {"locked", "relocked"}
              /\ pc'[t] \notin {pc[t], "undefined"}
              /\ qreset )
            => ( /\ pc'[t] = "done"
                 /\ ret'[t] = ECANCELED
                 /\ UNCHANGED <<count, head, tail, buffer>> )]_vars

\* C12: in every reachable state in which the queue is reset count is 0, and
\* every sendmsg that has taken the mutex while the queue is reset (at
\* entry, or re-acquired inside its condition wait) returns in its next step
\* and leaves count, head, tail and the buffer unchanged; it returns
\* ETIMEDOUT if its condition wait had timed out and ECANCELED in every
\* other case (on a queue that is not destroyed under the call).
QueueClosedWhileReset ==
    /\ [](qreset => count = 0)
    /\ [][\A t \in Threads :
            ( /\ op[t] = "sendmsg"
              /\ pc[t] \in {"locked", "relocked"}
              /\ pc'[t] \notin {pc[t], "undefined"}
              /\ qreset )
            => ( /\ pc'[t] = "done"
                 /\ ret'[t] = IF pc[t] = "relocked" /\ result[t] = ETIMEDOUT
                              THEN ETIMEDOUT
                              ELSE ECANCELED
                 /\ UNCHANGED <<count, head, tail, buffer>> )]_vars

\* the queue is reset; a polling sendmsg, which never blocks, has returned
\* ECANCELED, and a timed sendmsg whose condition wait timed out has
\* re-acquired the mutex
TimedOutSenderLockedInReset ==
    /\ qreset
    /\ \E t \in Threads, u \in Threads :
          /\ pc[u] = "done"
          /\ op[u] = "sendmsg"
          /\ timeout[u] = PTHREAD_NOWAIT
          /\ ret[u] = ECANCELED
          /\ pc[t] = "relocked"
          /\ op[t] = "sendmsg"
          /\ result[t] = ETIMEDOUT
          /\ t \in qmutex

\* ------------------------------------------------------------------- C13
\* C13: a getmsg that runs its first critical section while the queue is
\* reset returns ECANCELED in that step (it neither blocks nor returns
\* ETIMEDOUT), and a getmsg that was blocked forever on the empty queue when
\* a reset ran returns ECANCELED.
ResetCancelsReceive ==
    [][\A t \in Threads :
          /\ ( /\ op[t] = "getmsg"
               /\ pc[t] = "locked"
               /\ pc'[t] # "locked"
               /\ qreset )
             => ( pc'[t] = "done" /\ ret'[t] = ECANCELED )
          /\ ( /\ op[t] = "getmsg"
               /\ timeout[t] = PTHREAD_WAIT
               /\ cancelled[t]
               /\ pc[t] # "done"
               /\ pc'[t] = "done" )
             => ret'[t] = ECANCELED]_vars

\* a getmsg that was blocked forever on the empty queue when a reset ran is
\* still blocked after the reset has returned, the queue being still reset
ReceiverStillBlockedAfterReset ==
    \E t \in Threads, u \in Threads :
        /\ op[t] = "getmsg"
        /\ timeout[t] = PTHREAD_WAIT
        /\ pc[t] = "waiting"
        /\ cancelled[t]
        /\ op[u] = "qreset"
        /\ pc[u] = "done"
        /\ qreset

\* ------------------------------------------------------------------- C14
\* C14: a pthread_event_wait with a valid timeout that runs its first
\* critical section while the event is reset returns ECANCELED in that step:
\* it does not block and returns neither 0 nor ETIMEDOUT.
WaitFailsFastWhileReset ==
    [][\A t \in Threads :
          ( /\ op[t] = "wait"
            /\ pc[t] = "locked"
            /\ pc'[t] # "locked"
            /\ ereset )
          => ( pc'[t] = "done" /\ ret'[t] = ECANCELED )]_vars

\* a wait has entered, with the mutex, while the event is reset
WaitEnteredWhileReset ==
    \E t \in Threads :
        /\ op[t] = "wait"
        /\ pc[t] = "locked"
        /\ result[t] = Uninit
        /\ ereset

\* ------------------------------------------------------------------- C15
\* bit i of the unsigned integer x
Bit(x, i) == (x \div (2 ^ i)) % 2

\* C15: the step in which a pthread_event_wait returns 0 is the step that
\* evaluated its predicate under the mutex; with action CLEAR it clears
\* every bit of the mask argument and leaves every other bit of the event
\* mask as it was, with action KEEP it leaves the event mask unchanged.
ConsumeOnWake ==
    [][\A t \in Threads :
          ( /\ op[t] = "wait"
            /\ pc[t] \in {"locked", "relocked"}
            /\ pc'[t] = "done"
            /\ ret'[t] = 0 )
          => ( /\ action[t] = PTHREAD_EVENT_CLEAR
                    => \A i \in 0..(MaskBits - 1) :
                          Bit(emask', i) =
                            IF Bit(wmask[t], i) = 1 THEN 0 ELSE Bit(emask, i)
               /\ action[t] = PTHREAD_EVENT_KEEP => emask' = emask )]_vars

\* a waiter with action CLEAR has blocked, was woken with result 0 and holds
\* the mutex again; all bits of its mask are set and so is a bit outside its
\* mask, and no reset is active: it returns 0 next and clears its bits
ClearingWaiterAboutToConsume ==
    \E t \in Threads :
        /\ op[t] = "wait"
        /\ pc[t] = "relocked"
        /\ result[t] = 0
        /\ action[t] = PTHREAD_EVENT_CLEAR
        /\ wmask[t] # 0
        /\ BitAnd(emask, wmask[t]) = wmask[t]
        /\ emask # wmask[t]
        /\ ~ereset

\* ------------------------------------------------------------------- C16
\* C16: a thread cancelled while blocked in the condition wait of
\* pthread_event_wait, pthread_queue_sendmsg or pthread_queue_getmsg does
\* not die holding the mutex or queued on a condition variable: whoever
\* holds a mutex is a live thread inside a critical section, whose next step
\* releases it, so the other threads can still acquire it.
NoLockLeak ==
    /\ \A t \in Threads :
          pc[t] = "dead" => t \notin (qmutex \cup emutex \cup full \cup empty \cup cond)
    /\ \A t \in qmutex \cup emutex :
          pc[t] \in {"locked", "relocked", "cleanup"}

\* one thread was cancelled in its condition wait and has terminated; the
\* other thread has since acquired the mutex that the dead thread had
\* re-acquired for its cleanup
LockTakenAfterCancel ==
    \E t \in Threads, u \in Threads :
        /\ pc[t] = "dead"
        /\ op[t] \in {"wait", "sendmsg", "getmsg"}
        /\ pc[u] = "locked"
        /\ u \in qmutex \cup emutex

\* ------------------------------------------------------------------- C17
\* C17: every access to the state is made by a thread that holds the
\* object's mutex: a step that writes the queue's count, head, tail, buffer
\* or reset flag, or the event's mask or reset flag, is taken with the mutex
\* held, and a call of pthread_queue_count or pthread_event_current reads
\* the value it returns while the caller holds the mutex.
StateAccessUnderLock ==
    [][/\ (qdata' # qdata) => qmutex # {}
       /\ (<<emask, ereset>>' # <<emask, ereset>>) => emutex # {}
       /\ \A t \in Threads :
             ( /\ Ready(t)
               /\ pc'[t] = "done"
               /\ <<pc[t], op[t], ret[t]>> # <<pc'[t], op'[t], ret'[t]>> )
             => /\ op'[t] = "qcount" => qmutex = {t}
                /\ op'[t] = "current" => emutex = {t}]_vars

\* a thread has returned from pthread_queue_count or pthread_event_current,
\* which it can call at any time, while the other thread is inside a
\* critical section
GetterBesideCriticalSection ==
    \E t \in Threads, u \in Threads :
        /\ pc[t] = "done"
        /\ op[t] \in {"qcount", "current"}
        /\ pc[u] \in {"locked", "relocked"}
        /\ u \in qmutex \cup emutex

\* ------------------------------------------------------------------- C18
\* C18: reset and unreset are idempotent on both objects. The critical
\* section of a reset leaves the object reset (reset flag set, mask 0 /
\* head = tail = count = 0) with the mutex released, and on an object that
\* is already in that state it changes nothing; the critical section of an
\* unreset on an object that is not reset changes nothing, releases the
\* mutex and returns 0; a thread inside reset or unreset never waits on a
\* condition variable. (All of it on an object that is not freed under
\* the call.)
ResetIdempotent ==
    /\ [](\A t \in Threads :
            ( /\ op[t] \in {"qreset", "qunreset", "ereset", "eunreset"}
              /\ pc[t] # "undefined" )
            => /\ pc[t] \in {"locked", "signal", "done"}
               /\ t \notin (full \cup empty \cup cond))
    /\ [][\A t \in Threads :
            (pc[t] = "locked" /\ pc'[t] \notin {"locked", "undefined"})
            => /\ op[t] = "qreset"
                  => /\ qreset' /\ head' = 0 /\ tail' = 0 /\ count' = 0
                     /\ qmutex' = {}
                     /\ (qreset /\ head = 0 /\ tail = 0 /\ count = 0)
                        => qdata' = qdata
               /\ op[t] = "ereset"
                  => /\ ereset' /\ emask' = 0
                     /\ emutex' = {}
                     /\ (ereset /\ emask = 0) => <<emask, ereset>>' = <<emask, ereset>>
               /\ op[t] = "qunreset"
                  => /\ qmutex' = {} /\ pc'[t] = "done" /\ ret'[t] = 0
                     /\ ~qreset => qdata' = qdata
               /\ op[t] = "eunreset"
                  => /\ emutex' = {} /\ pc'[t] = "done" /\ ret'[t] = 0
                     /\ ~ereset => <<emask, ereset>>' = <<emask, ereset>>]_vars

\* one thread has returned from an unreset of a queue that holds a message
\* and is not reset, and the other thread is inside the critical section of
\* a second unreset
UnresetOfActiveQueue ==
    \E t \in Threads, u \in Threads :
        /\ op[t] = "qunreset" /\ pc[t] = "done"
        /\ op[u] = "qunreset" /\ pc[u] = "locked"
        /\ ~qreset
        /\ count > 0

\* ------------------------------------------------------------------- C19
\* C19: a waiter that was blocked in pthread_event_wait and, back from the
\* condition wait with the mutex re-acquired, finds the reset flag set does
\* not block again and never returns 0; unless the condition wait itself
\* timed out (which returns ETIMEDOUT before the flag is read) it returns
\* ECANCELED, also when its predicate holds on the current mask (on an
\* event that is not destroyed under the call).
ResetBeatsPredicate ==
    [][\A t \in Threads :
          ( /\ op[t] = "wait"
            /\ pc[t] = "relocked"
            /\ ereset
            /\ pc'[t] \notin {"relocked", "undefined"} )
          => /\ pc'[t] = "done"
             /\ ret'[t] # 0
             /\ result[t] # ETIMEDOUT => ret'[t] = ECANCELED]_vars

\* a woken waiter holds the mutex again while the event is reset and its
\* predicate holds, because the bits it waits for were set after the reset
WokenInResetWithPredicateTrue ==
    \E t \in Threads :
        /\ op[t] = "wait"
        /\ pc[t] = "relocked"
        /\ result[t] # ETIMEDOUT
        /\ ereset
        /\ wmask[t] # 0
        /\ Satisfied(test[t], wmask[t], emask)
        /\ BitAnd(emask, wmask[t]) = wmask[t]

\* ------------------------------------------------------------------- C20
\* C20: pthread_event_wait changes the mask only when it consumes on
\* success: the step in which a wait call returns a non-zero code (EINVAL,
\* ETIMEDOUT, ECANCELED), or returns from a call made with
\* PTHREAD_EVENT_KEEP, leaves the mask unchanged. Returns of the function's
\* local result before the function has assigned it are left aside: their
\* code is indeterminate.
WaitClearsOnlyOnSuccess ==
    [][\A t \in Threads :
          ( /\ pc[t] # "done" \/ Ready(t)
            /\ pc[t] = "locked"
               => PollFails(timeout[t], ~EventDone(test[t], wmask[t], emask))
            /\ pc'[t] = "done"
            /\ op'[t] = "wait"
            /\ <<pc[t], op[t], ret[t], timeout[t]>> # <<pc'[t], op'[t], ret'[t], timeout'[t]>>
            /\ ret'[t] # 0 \/ action[t] = PTHREAD_EVENT_KEEP )
          => emask' = emask]_vars

\* a waiter called with PTHREAD_EVENT_CLEAR was blocked when the event was
\* reset, a bit of its mask was set during the reset, and it holds the mutex
\* again, about to return ECANCELED
CancelledClearingWaiter ==
    \E t \in Threads :
        /\ op[t] = "wait"
        /\ pc[t] = "relocked"
        /\ result[t] # ETIMEDOUT
        /\ action[t] = PTHREAD_EVENT_CLEAR
        /\ cancelled[t]
        /\ ereset
        /\ BitAnd(emask, wmask[t]) # 0

\* ------------------------------------------------------------------- C21
\* a wakeup is on its way to the receivers: a sender has unlocked and is
\* about to signal queue->empty, or a receiver taken out of its wait (not by
\* its deadline) has yet to re-test the queue
WakePendingEmpty ==
    \E u \in Threads :
        \/ op[u] = "sendmsg" /\ pc[u] = "signal"
        \/ op[u] = "getmsg" /\ pc[u] \in {"woken", "relocked"}
                            /\ result[u] # ETIMEDOUT

\* a wakeup is on its way to the senders
WakePendingFull ==
    \E u \in Threads :
        \/ op[u] = "getmsg" /\ pc[u] = "signal"
        \/ op[u] = "sendmsg" /\ pc[u] \in {"woken", "relocked"}
                             /\ result[u] # ETIMEDOUT

Running(t) == pc[t] \in {"locked", "waiting", "woken", "relocked"}

\* the predicate the running call of thread t waits for holds
PredicateHolds(t) ==
    CASE op[t] = "sendmsg" -> ~QueueFull
      [] op[t] = "getmsg" -> ~QueueEmpty
      [] op[t] = "wait" -> Satisfied(test[t], wmask[t], emask)
      [] OTHER -> TRUE

\* C22: bounded waits terminate. On an object that is never reset, under
\* fair scheduling, a wait, sendmsg or getmsg call made with a positive
\* timeout eventually returns ETIMEDOUT unless its predicate comes to hold
\* while it runs, however often it is woken in between.
BoundedWaitsTerminate ==
    \A t \in Threads :
        (Running(t) /\ timeout[t] > 0)
        ~> (\/ pc[t] = "done" /\ ret[t] = ETIMEDOUT
            \/ Running(t) /\ PredicateHolds(t))

\* a getmsg with a positive timeout on the empty queue holds the mutex, its
\* pthread_cond_timedwait has returned EINVAL, as it will at every turn of
\* the loop, and the clock has passed the time abstime stands for
SpinningPastDeadline ==
    \E t \in Threads :
        /\ op[t] = "getmsg"
        /\ pc[t] = "relocked"
        /\ Rejects(t)
        /\ result[t] = EINVAL
        /\ expired[t]
        /\ QueueEmpty
        /\ qmutex = {t}

\* ------------------------------------------------------------------- C23
\* C23: the queue's reset is asymmetric. No step of a reset takes a thread
\* out of its wait on queue->empty; getmsg never returns ECANCELED; and a
\* getmsg waiting forever that was blocked when a reset ran leaves its wait
\* loop only to take a message that was sent after that reset, with the
\* queue no longer reset. (All of it on a queue that is not destroyed under
\* the calls.)
ResetLeavesReceiversBlocked ==
    /\ [](\A t \in Threads :
            (op[t] = "getmsg" /\ pc[t] = "done") => ret[t] # ECANCELED)
    /\ [][\A t \in Threads, u \in Threads :
            ( /\ t \in empty
              /\ op[u] = "qreset"
              /\ pc[u] \in {"locked", "signal"}
              /\ pc'[u] \notin {pc[u], "undefined"} )
            => (t \in empty' /\ pc'[t] = "waiting")]_vars
    /\ [][\A t \in Threads :
            ( /\ op[t] = "getmsg"
              /\ timeout[t] = PTHREAD_WAIT
              /\ cancelled[t]
              /\ pc[t] \in {"waiting", "woken", "relocked"}
              /\ pc'[t] \notin {"waiting", "woken", "relocked", "undefined"} )
            => /\ ~qreset
               /\ count > 0
               /\ pc'[t] = "signal"
               /\ \E i \in 1..Len(sent) : msg'[t] = sent[i]]_vars

\* a receiver waiting forever was blocked on the empty queue when a reset
\* ran, and has now taken a message
ReceiverServedAfterReset ==
    \E t \in Threads :
        /\ op[t] = "getmsg"
        /\ timeout[t] = PTHREAD_WAIT
        /\ cancelled[t]
        /\ pc[t] = "signal"

\* ------------------------------------------------------------------- C24
\* C24: mutual exclusion and no lock leak on return. Each mutex has at most
\* one holder, and a thread that is not inside a call (it has returned from
\* set, clr, wait, sendmsg, getmsg, reset or unreset with whatever code, or
\* has called nothing yet) holds no mutex; a thread past its unlock, about
\* to signal or broadcast, holds none either.
MutexDiscipline ==
    /\ Cardinality(qmutex) <= 1
    /\ Cardinality(emutex) <= 1
    /\ \A t \in Threads :
          pc[t] \in {"idle", "done", "signal", "waiting", "woken"}
          => t \notin (qmutex \cup emutex)

\* a thread has returned ETIMEDOUT or ECANCELED from a call that had taken
\* the mutex, and the other thread now holds that mutex
LockTakenAfterFailedCall ==
    \E t \in Threads, u \in Threads :
        /\ pc[t] = "done"
        /\ op[t] \in {"sendmsg", "getmsg", "wait"}
        /\ ret[t] \in {ETIMEDOUT, ECANCELED}
        /\ timeout[t] # PTHREAD_NOWAIT
        /\ pc[u] \in {"locked", "relocked"}
        /\ u \in qmutex \cup emutex

\* ------------------------------------------------------------------- C25
\* C25: the deadline conversion is exact and normalised: for a clock reading
\* with 0 <= tv_nsec < 10^9 and ms > 0, pthread_ext_ms2abs_time leaves in
\* *abstime the reading plus ms milliseconds, with tv_nsec in [0, 10^9).
DeadlineExactAndNormalised ==
    tpc = "done"
    => /\ tspec[2] >= 0
       /\ tspec[2] < NsecPerSec
       /\ (tspec[2] - clock[2]) % 1000000 = 0
       /\ (tspec[1] - clock[1]) * 1000 + ((tspec[2] - clock[2]) \div 1000000) = ms

\* the conversion has run on a reading and an ms whose nanosecond sum is
\* exactly 10^9
NanosecondSumIsOneSecond ==
    /\ tpc = "done"
    /\ clock[2] + (ms % 1000) * 1000000 = NsecPerSec

====
